---- MODULE Spec2Model ----
(***************************************************************************)
(* Consent text store and consent ledger of streamlit_app.py: two SQLite   *)
(* tables (consent_texts, consents), the functions that insert, read and   *)
(* revoke, and the Streamlit script that calls them.                       *)
(*                                                                         *)
(* Text values that the code compares or sorts (the created_at and         *)
(* revoked_at columns) are sequences of character codes, so that SQLite's  *)
(* byte-wise TEXT comparison and its datetime() function are computed on   *)
(* the strings the code stores.  Other strings are TLA+ strings.           *)
(***************************************************************************)
EXTENDS Integers, Sequences, FiniteSets, TLC

VARIABLES
    consent_texts,  \* table consent_texts, in rowid order
    consents,       \* table consents, in rowid (insertion) order
    call,           \* the most recent call: its name and arguments
    ret,            \* what that call returned
    shown,          \* per browser session: the consent text row its page displays
    displayed,      \* per consent id: the row the subject saw when pressing submit
    lock,           \* the session holding SQLite's write lock, or NoSession
    txn             \* per session: its open revoke transaction

vars == <<consent_texts, consents, call, ret, shown, displayed, lock, txn>>

(***************************************************************************)
(* Bounds of the model.                                                    *)
(***************************************************************************)
MaxTexts == 2       \* rows in consent_texts
MaxConsents == 2    \* rows in consents
MaxSec == 1         \* clock readings lie in seconds 0..MaxSec of one minute

(***************************************************************************)
(* Python values.                                                          *)
(***************************************************************************)
None == "None"          \* Python None in a str-typed argument or column
NULL == <<>>            \* SQL NULL in a timestamp column (isoformat() is never empty)
NoRow == [absent |-> TRUE]   \* fetchone() found no row

Truthy(s) == s # None /\ s # ""
\* Python's `x or None`
OrNone(s) == IF Truthy(s) THEN s ELSE None

(***************************************************************************)
(* Clock readings and datetime.now(timezone.utc).isoformat().              *)
(* A reading is [sec, micro] inside the minute 2026-11-02T03:33 UTC.       *)
(***************************************************************************)
MicroSamples == {0, 250000, 750000}
Times == [sec : 0..MaxSec, micro : MicroSamples]

\* reading a is earlier than reading b
TimeLess(a, b) == a.sec < b.sec \/ (a.sec = b.sec /\ a.micro < b.micro)

\* character codes: "0" is 48, "+" 43, "-" 45, "." 46, ":" 58, " " 32, "T" 84
Digit(d) == 48 + d
IsDigit(c) == 48 <= c /\ c <= 57
\* "2026-11-02T03:33:"
DatePrefix == <<50,48,50,54,45,49,49,45,48,50,84,48,51,58,51,51,58>>
\* "+00:00"
UtcOffset == <<43,48,48,58,48,48>>

TwoDigits(n) == <<Digit(n \div 10), Digit(n % 10)>>
SixDigits(n) == <<Digit(n \div 100000), Digit((n \div 10000) % 10),
                  Digit((n \div 1000) % 10), Digit((n \div 100) % 10),
                  Digit((n \div 10) % 10), Digit(n % 10)>>

\* datetime.isoformat(): the fraction is left out when microsecond = 0
isoformat(t) ==
    DatePrefix \o TwoDigits(t.sec)
        \o (IF t.micro = 0 THEN <<>> ELSE <<46>> \o SixDigits(t.micro))
        \o UtcOffset

\* SQLite's comparison of two TEXT values under the BINARY collation (memcmp,
\* then the shorter one first)
TextLess(a, b) ==
    LET n == IF Len(a) < Len(b) THEN Len(a) ELSE Len(b) IN
    IF a = b THEN FALSE
    ELSE IF \A i \in 1..n : a[i] = b[i] THEN Len(a) < Len(b)
    ELSE LET d == CHOOSE i \in 1..n :
                     a[i] # b[i] /\ \A j \in 1..(i - 1) : a[j] = b[j]
         IN  a[d] < b[d]

(***************************************************************************)
(* hashlib.sha256(body.encode("utf-8")).hexdigest(): a function of the     *)
(* bytes of body alone, taken to be collision free.                        *)
(***************************************************************************)
sha256_hexdigest(bytes) == <<"sha256", bytes>>
encode_utf8(s) == <<"utf-8", s>>

(***************************************************************************)
(* SQLite's datetime(text): the text is parsed as                          *)
(* YYYY-MM-DDTHH:MM:SS[.fraction][+HH:MM], turned into whole milliseconds  *)
(* and printed as YYYY-MM-DD HH:MM:SS with the milliseconds dropped (as    *)
(* SQLite 3.40 does: datetime('2026-11-02T03:33:00.999600+00:00') is       *)
(* '2026-11-02 03:33:00').  The offset is +00:00 and shifts nothing; the   *)
(* date part is copied.                                                    *)
(***************************************************************************)
RECURSIVE ParseDigits(_, _, _, _)
\* the number written in text[from..to], after the digits read so far (acc)
ParseDigits(text, from, to, acc) ==
    IF from > to THEN acc
    ELSE ParseDigits(text, from + 1, to, acc * 10 + (text[from] - 48))

RECURSIVE FractionEnd(_, _)
\* the index of the last digit of the run of digits starting at i (i-1 if none)
FractionEnd(text, i) ==
    IF i <= Len(text) /\ IsDigit(text[i]) THEN FractionEnd(text, i + 1) ELSE i - 1

RECURSIVE Pow10(_)
Pow10(k) == IF k = 0 THEN 1 ELSE 10 * Pow10(k - 1)

\* milliseconds since midnight
DayMillis(text) ==
    LET h == ParseDigits(text, 12, 13, 0)
        m == ParseDigits(text, 15, 16, 0)
        s == ParseDigits(text, 18, 19, 0)
        hasFrac == Len(text) >= 20 /\ text[20] = 46
        fe == IF hasFrac THEN FractionEnd(text, 21) ELSE 20
        digits == IF hasFrac THEN ParseDigits(text, 21, fe, 0) ELSE 0
        scale == IF hasFrac THEN Pow10(fe - 20) ELSE 1
        \* (sqlite3_int64)(s*1000), s the seconds with their fraction
        ms == s * 1000 + ((digits * 1000) \div scale)
    IN  h * 3600000 + m * 60000 + ms

sqlite_datetime(text) ==
    LET ms == DayMillis(text)
        h == ms \div 3600000
        m == (ms \div 60000) % 60
        s == (ms \div 1000) % 60
    IN  SubSeq(text, 1, 10) \o <<32>> \o TwoDigits(h) \o <<58>> \o TwoDigits(m)
            \o <<58>> \o TwoDigits(s)

\* the clock reading an isoformat() string denotes (used to state properties
\* about creation times)
fromisoformat(text) ==
    [sec |-> ParseDigits(text, 18, 19, 0),
     micro |-> IF Len(text) >= 20 /\ text[20] = 46
               THEN ParseDigits(text, 21, 26, 0) ELSE 0]

(***************************************************************************)
(* The storage handle db(): one connection per call, committed on return.  *)
(* A writing statement takes SQLite's write lock before it reads; the lock *)
(* is held until the commit.  A call that is not split into steps below    *)
(* runs its statement and its commit as one step, with the lock free.      *)
(***************************************************************************)
Sessions == {"s1", "s2"}
NoSession == "NoSession"

\* faulty variant: a write that does not wait for the lock
CanWrite_unlocked(s) == TRUE
\* con.execute() of a writing statement: the write lock is free or already s's
CanWrite(s) == lock = NoSession \/ lock = s

RowsOf(table) == {table[i] : i \in 1..Len(table)}

(***************************************************************************)
(* ConsentTextStore                                                        *)
(***************************************************************************)
\* INTEGER PRIMARY KEY without AUTOINCREMENT: one more than the largest rowid
NextRowid(table) ==
    IF table = <<>> THEN 1
    ELSE 1 + (CHOOSE m \in {table[i].id : i \in 1..Len(table)} :
                 \A i \in 1..Len(table) : table[i].id <= m)

\* faulty variant: the version hashed together with the body
BodyHash_versioned(version, language, title, body) ==
    sha256_hexdigest(encode_utf8(<<version, body>>))
\* h = hashlib.sha256(body.encode("utf-8")).hexdigest()
BodyHash(version, language, title, body) ==
    sha256_hexdigest(encode_utf8(body))

\* INSERT INTO consent_texts(version, language, title, body, body_hash, created_at)
InsertText(texts, version, language, title, body, now) ==
    Append(texts,
        [id |-> NextRowid(texts), version |-> version, language |-> language,
         title |-> title, body |-> body,
         body_hash |-> BodyHash(version, language, title, body),
         created_at |-> isoformat(now)])

upsert_consent_text(version, language, title, body, now) ==
    /\ Len(consent_texts) < MaxTexts
    /\ lock = NoSession
    /\ consent_texts' = InsertText(consent_texts, version, language, title, body, now)
    /\ call' = [op |-> "upsert_consent_text", version |-> version,
                language |-> language, title |-> title, body |-> body]
    /\ ret' = BodyHash(version, language, title, body)
    /\ UNCHANGED <<consents, shown, displayed, lock, txn>>

\* faulty variant: the row inserted last instead of the one stamped last
LatestRows_lastInserted(texts, language) ==
    LET rows == {r \in RowsOf(texts) : r.language = language} IN
    {r \in rows : \A q \in rows : q.id <= r.id}
\* WHERE language=? ORDER BY created_at DESC LIMIT 1: a matching row that no
\* other matching row sorts after (SQL leaves the choice among equal
\* created_at open); empty when no row matches
LatestRows(texts, language) ==
    LET rows == {r \in RowsOf(texts) : r.language = language} IN
    {r \in rows : \A q \in rows : ~TextLess(r.created_at, q.created_at)}

get_latest_consent_text(language) ==
    /\ call' = [op |-> "get_latest_consent_text", language |-> language]
    /\ IF LatestRows(consent_texts, language) = {}
       THEN ret' = NoRow
       ELSE \E row \in LatestRows(consent_texts, language) : ret' = row
    /\ UNCHANGED <<consent_texts, consents, shown, displayed, lock, txn>>

(***************************************************************************)
(* ConsentLedger                                                           *)
(***************************************************************************)
Ids == {"u1", "u2", "u3"}     \* values uuid.uuid4() can return
PurposeKeys == <<"newsletter", "produktinfos", "feedback_kontakt",
                 "datenanalyse_aggregiert">>

\* json.dumps(purposes): the keys in insertion order, each with its value
json_dumps(purposes) ==
    [i \in 1..Len(PurposeKeys) |-> <<PurposeKeys[i], purposes[PurposeKeys[i]]>>]

UsedIds(table) == {table[i].id : i \in 1..Len(table)}

\* INSERT INTO consents(...) VALUES (cid, now, email, name, purposes, ct_id,
\* ct_version, ct_hash, 1, NULL, NULL)
InsertConsent(table, cid, subject_email, subject_name, purposes, ct_row, now) ==
    Append(table,
        [id |-> cid,
         created_at |-> isoformat(now),
         subject_email |-> OrNone(subject_email),
         subject_name |-> OrNone(subject_name),
         purposes_json |-> json_dumps(purposes),
         consent_text_id |-> ct_row.id,
         consent_text_version |-> ct_row.version,
         consent_text_hash |-> ct_row.body_hash,
         is_granted |-> 1,
         revoked_at |-> NULL,
         revocation_note |-> None])

\* cid is uuid4()'s value, which no stored record has; ct_row is a row of
\* consent_texts (the foreign key is enforced)
save_consent(subject_email, subject_name, purposes, ct_row, cid, now) ==
    /\ Len(consents) < MaxConsents
    /\ lock = NoSession
    /\ cid \notin UsedIds(consents)
    /\ ct_row \in RowsOf(consent_texts)
    /\ consents' = InsertConsent(consents, cid, subject_email, subject_name,
                                 purposes, ct_row, now)
    /\ call' = [op |-> "save_consent", textSnapshot |-> ct_row]
    /\ ret' = cid
    /\ UNCHANGED <<consent_texts, shown, displayed, lock, txn>>

\* lower-casing, for the e-mail addresses of this model
Lower(s) == IF s = "A@x.de" THEN "a@x.de" ELSE s

\* faulty variant: a comparison that ignores case
EmailMatches_nocase(subject_email, email_filter) ==
    subject_email # None /\ Lower(subject_email) = Lower(email_filter)
\* subject_email = ? : never true of a NULL subject_email
EmailMatches(subject_email, email_filter) ==
    subject_email # None /\ subject_email = email_filter

\* the columns list_consents selects
ListedColumns(r) ==
    [id |-> r.id, created_at |-> r.created_at, subject_email |-> r.subject_email,
     subject_name |-> r.subject_name, purposes_json |-> r.purposes_json,
     consent_text_version |-> r.consent_text_version,
     is_granted |-> r.is_granted, revoked_at |-> r.revoked_at]

\* WHERE 1=1 [AND subject_email = ?]: the indexes of the selected rows
Selected(table, email_filter) ==
    {i \in 1..Len(table) :
        Truthy(email_filter) => EmailMatches(table[i].subject_email, email_filter)}

\* ORDER BY datetime(created_at) DESC
SortKey(r) == sqlite_datetime(r.created_at)

\* the orders in which SQLite may return the selected rows: every
\* arrangement in which no row comes before one with a greater sort key
\* (rows with equal keys come in an order SQL does not fix)
ListResults(table, email_filter) ==
    LET sel == Selected(table, email_filter)
        n == Cardinality(sel)
    IN  {[k \in 1..n |-> ListedColumns(table[p[k]])] :
            p \in {q \in [1..n -> sel] :
                     /\ \A a, b \in 1..n : a # b => q[a] # q[b]
                     /\ \A a, b \in 1..n : a < b =>
                           ~TextLess(SortKey(table[q[a]]), SortKey(table[q[b]]))}}

list_consents(email_filter) ==
    /\ call' = [op |-> "list_consents", email_filter |-> email_filter]
    /\ \E rows \in ListResults(consents, email_filter) : ret' = rows
    /\ UNCHANGED <<consent_texts, consents, shown, displayed, lock, txn>>

\* note="Widerruf durch Betroffene*n via UI"
DefaultNote == "Widerruf durch Betroffene*n via UI"

\* faulty variant: the UPDATE without its revoked_at IS NULL condition
Revoked_overwrite(r, consent_id) == r.id = consent_id
\* WHERE id = ? AND revoked_at IS NULL
Revocable(r, consent_id) == r.id = consent_id /\ r.revoked_at = NULL

\* faulty variant: the UPDATE without is_granted = 0
RevokedRow_keepsGranted(r, at, note) ==
    [r EXCEPT !.revoked_at = at, !.revocation_note = note]
\* SET is_granted = 0, revoked_at = ?, revocation_note = ?
RevokedRow(r, at, note) ==
    [r EXCEPT !.is_granted = 0, !.revoked_at = at, !.revocation_note = note]

\* faulty variant: the UPDATE without its id condition
UpdateRevoke_everyRow(table, consent_id, note, at) ==
    [i \in 1..Len(table) |->
        IF table[i].revoked_at = NULL THEN RevokedRow(table[i], at, note)
        ELSE table[i]]
\* UPDATE consents SET ... WHERE id = ? AND revoked_at IS NULL
UpdateRevoke(table, consent_id, note, at) ==
    [i \in 1..Len(table) |->
        IF Revocable(table[i], consent_id) THEN RevokedRow(table[i], at, note)
        ELSE table[i]]

\* the number of rows the UPDATE changes
RowCount(table, consent_id) ==
    Cardinality({i \in 1..Len(table) : Revocable(table[i], consent_id)})

revoke_consent(consent_id, note, now) ==
    /\ lock = NoSession
    /\ consents' = UpdateRevoke(consents, consent_id, note, isoformat(now))
    /\ call' = [op |-> "revoke_consent", consent_id |-> consent_id,
                note |-> note, at |-> isoformat(now)]
    /\ ret' = None
    /\ UNCHANGED <<consent_texts, shown, displayed, lock, txn>>

(***************************************************************************)
(* Initial state: init_db() has created both tables, empty.                *)
(***************************************************************************)
NoTxn == [state |-> "idle"]

Init ==
    /\ consent_texts = <<>>
    /\ consents = <<>>
    /\ call = [op |-> "init_db"]
    /\ ret = None
    /\ shown = [s \in Sessions |-> NoRow]
    /\ displayed = [c \in Ids |-> NoRow]
    /\ lock = NoSession
    /\ txn = [s \in Sessions |-> NoTxn]

(***************************************************************************)
(* The Streamlit script.  Every interaction of a browser session runs the  *)
(* whole script again, top to bottom, against the shared database: a text  *)
(* form submitted in this run is saved first, then the latest "de" text is *)
(* read and displayed, then a consent form submitted in this run is saved  *)
(* with that row, then the consents are listed, then a revoke pressed in   *)
(* this run is carried out.                                                *)
(***************************************************************************)
\* str.strip(), for the form inputs of this model
strip(s) == IF s = " a@x.de " THEN "a@x.de" ELSE s

\* any(p.values())
AnyPurpose(p) == \E k \in DOMAIN p : p[k]

\* latest = get_latest_consent_text(language="de"): the rows fetchone() may
\* return, NoRow when there is none
LatestChoices(texts) ==
    LET found == LatestRows(texts, "de") IN
    IF found = {} THEN {NoRow} ELSE found

\* st.stop() when there is no latest row, else it is rendered into the
\* consent form
ReadLatest(s, latest) == shown' = [shown EXCEPT ![s] = latest]

\* a run in which no form was submitted and no button pressed
RunView(s) ==
    /\ lock = NoSession
    /\ \E latest \in LatestChoices(consent_texts) :
          ReadLatest(s, latest)
    /\ call' = [op |-> "script_run", event |-> "view"]
    /\ ret' = None
    /\ UNCHANGED <<consent_texts, consents, displayed, lock, txn>>

\* the run after "Einwilligungstext speichern/aktualisieren"
RunSubmitText(s, version, language, title, body, now) ==
    /\ lock = NoSession
    /\ Len(consent_texts) < MaxTexts
    /\ consent_texts' = InsertText(consent_texts, version, language, title, body, now)
    /\ \E latest \in LatestChoices(consent_texts') :
          ReadLatest(s, latest)
    /\ call' = [op |-> "script_run", event |-> "consent_text_form"]
    /\ ret' = None
    /\ UNCHANGED <<consents, displayed, lock, txn>>

\* the run after "Einwilligung erteilen", pressed on a page that shows the
\* consent form; displayed records the row that page showed
RunSubmitConsent(s, subject_name, subject_email, p, ack_info, age_ok, cid, now) ==
    /\ lock = NoSession
    /\ shown[s] # NoRow
    /\ Len(consents) < MaxConsents
    /\ cid \notin UsedIds(consents)
    /\ \E latest \in LatestChoices(consent_texts) :
          /\ ReadLatest(s, latest)
          /\ IF latest # NoRow /\ ack_info /\ age_ok /\ AnyPurpose(p)
             THEN /\ consents' = InsertConsent(consents, cid,
                                     OrNone(strip(subject_email)),
                                     OrNone(strip(subject_name)), p, latest, now)
                  /\ displayed' = [displayed EXCEPT ![cid] = shown[s]]
             ELSE UNCHANGED <<consents, displayed>>
    /\ call' = [op |-> "script_run", event |-> "consent_collect_form"]
    /\ ret' = None
    /\ UNCHANGED <<consent_texts, lock, txn>>

\* the run after "Ausgewählten Eintrag widerrufen", with an id picked from
\* the listed rows
RunRevoke(s, cid, now) ==
    /\ lock = NoSession
    /\ shown[s] # NoRow
    /\ cid \in UsedIds(consents)
    /\ \E latest \in LatestChoices(consent_texts) :
          ReadLatest(s, latest)
    /\ consents' = UpdateRevoke(consents, cid, DefaultNote, isoformat(now))
    /\ call' = [op |-> "script_run", event |-> "revoke"]
    /\ ret' = None
    /\ UNCHANGED <<consent_texts, displayed, lock, txn>>

(***************************************************************************)
(* revoke_consent in its steps, for sessions that call it at the same      *)
(* time: con.execute() of the UPDATE takes the write lock, reads and       *)
(* changes the rows inside its transaction; con.commit() on leaving the    *)
(* with block publishes the change and gives the lock back.  While another *)
(* connection holds the lock, execute() waits, and raises "database is     *)
(* locked" when the wait runs out.  Each session calls once.               *)
(***************************************************************************)
RevokeExecute(s, consent_id, note, now) ==
    /\ txn[s].state = "idle"
    /\ CanWrite(s)
    /\ lock' = s
    /\ txn' = [txn EXCEPT ![s] =
          [state |-> "open", consent_id |-> consent_id, note |-> note,
           at |-> isoformat(now),
           staged |-> UpdateRevoke(consents, consent_id, note, isoformat(now)),
           rowcount |-> RowCount(consents, consent_id)]]
    /\ UNCHANGED <<consent_texts, consents, call, ret, shown, displayed>>

RevokeBusy(s, consent_id, note, now) ==
    /\ txn[s].state = "idle"
    /\ ~CanWrite(s)
    /\ txn' = [txn EXCEPT ![s] =
          [state |-> "failed", consent_id |-> consent_id, note |-> note,
           at |-> isoformat(now), rowcount |-> 0]]
    /\ UNCHANGED <<consent_texts, consents, call, ret, shown, displayed, lock>>

RevokeCommit(s) ==
    /\ txn[s].state = "open"
    /\ consents' = txn[s].staged
    /\ lock' = NoSession
    /\ txn' = [txn EXCEPT ![s] =
          [state |-> "done", consent_id |-> txn[s].consent_id,
           note |-> txn[s].note, at |-> txn[s].at, rowcount |-> txn[s].rowcount]]
    /\ call' = [op |-> "revoke_consent", consent_id |-> txn[s].consent_id,
                note |-> txn[s].note, at |-> txn[s].at]
    /\ ret' = None
    /\ UNCHANGED <<consent_texts, shown, displayed>>

(***************************************************************************)
(* Inputs.                                                                 *)
(***************************************************************************)
Languages == {"de", "en"}
Titles == {"Einwilligung"}
\* (version, body) pairs an operator saves
TextInputs == {<<"v1.0", "Hello">>, <<"v1.1", "Hello">>, <<"v1.1", "Hallo">>}
Emails == {"", "a@x.de", "A@x.de"}
EmailFilters == {None, "", "a@x.de", "A@x.de"}
Names == {""}
PurposeInputs ==
    {[k \in {PurposeKeys[i] : i \in 1..Len(PurposeKeys)} |-> k = "newsletter"]}
Notes == {DefaultNote, "per E-Mail"}
WholeSeconds == {t \in Times : t.micro = 0}
FirstInstant == {t \in Times : t.sec = 0 /\ t.micro = 0}
FirstSecond == {t \in Times : t.sec = 0}
RevokeTimes == {t \in FirstSecond : t.micro # 0}

(***************************************************************************)
(* SpecLatest: one text saved again and again, under both languages and at *)
(* every clock reading, in any order (the wall clock may be set back).     *)
(***************************************************************************)
NextLatest ==
    \/ \E l \in Languages, ti \in Titles, now \in Times :
          upsert_consent_text("v1.0", l, ti, "Hello", now)
    \/ \E l \in Languages : get_latest_consent_text(l)

SpecLatest == Init /\ [][NextLatest]_vars

(***************************************************************************)
(* SpecTexts: the consent text store with several versions and bodies.     *)
(***************************************************************************)
NextTexts ==
    \/ \E vb \in TextInputs, l \in Languages, ti \in Titles, now \in WholeSeconds :
          upsert_consent_text(vb[1], l, ti, vb[2], now)
    \/ \E l \in Languages : get_latest_consent_text(l)

SpecTexts == Init /\ [][NextTexts]_vars

(***************************************************************************)
(* Spec: the six functions of the data layer.  One consent text is saved   *)
(* first; consents are saved against it and revoked under any id, note and *)
(* time.                                                                   *)
(***************************************************************************)
Next ==
    \/ /\ consent_texts = <<>>
       /\ \E ti \in Titles, now \in FirstInstant :
             upsert_consent_text("v1.0", "de", ti, "Hello", now)
    \/ get_latest_consent_text("de")
    \/ \E e \in {""}, n \in Names, p \in PurposeInputs,
          ct_row \in RowsOf(consent_texts), cid \in Ids, now \in FirstInstant :
          save_consent(e, n, p, ct_row, cid, now)
    \/ list_consents(None)
    \/ \E cid \in Ids, note \in Notes, now \in RevokeTimes :
          revoke_consent(cid, note, now)

Spec == Init /\ [][Next]_vars

(***************************************************************************)
(* SpecFilter: consents with and without an e-mail address, listed under   *)
(* every filter.  uuid4() hands out the ids in the order of IdOrder.       *)
(***************************************************************************)
IdOrder == <<"u1", "u2", "u3">>
NextId == IdOrder[Len(consents) + 1]

NextFilter ==
    \/ /\ consent_texts = <<>>
       /\ \E ti \in Titles, now \in FirstInstant :
             upsert_consent_text("v1.0", "de", ti, "Hello", now)
    \/ \E e \in Emails, n \in Names, p \in PurposeInputs,
          ct_row \in RowsOf(consent_texts), now \in FirstInstant :
          save_consent(e, n, p, ct_row, NextId, now)
    \/ \E f \in EmailFilters : list_consents(f)
    \/ \E cid \in Ids, now \in RevokeTimes : revoke_consent(cid, DefaultNote, now)

SpecFilter == Init /\ [][NextFilter]_vars

(***************************************************************************)
(* SpecOrder: consents saved one after the other on a clock that never     *)
(* runs backwards, and listed without a filter.                            *)
(***************************************************************************)
\* the readings not earlier than any stored created_at
LaterTimes ==
    {t \in Times : \A i \in 1..Len(consents) :
                      ~TextLess(isoformat(t), consents[i].created_at)}

NextOrder ==
    \/ /\ consent_texts = <<>>
       /\ \E ti \in Titles, now \in FirstInstant :
             upsert_consent_text("v1.0", "de", ti, "Hello", now)
    \/ \E n \in Names, p \in PurposeInputs,
          ct_row \in RowsOf(consent_texts), now \in LaterTimes :
          save_consent("", n, p, ct_row, NextId, now)
    \/ list_consents(None)
    \/ \E cid \in Ids, now \in FirstInstant : revoke_consent(cid, DefaultNote, now)

SpecOrder == Init /\ [][NextOrder]_vars

(***************************************************************************)
(* SpecUI: two browser sessions on the same database, an operator saving   *)
(* texts and a subject giving and revoking consent.  The clock advances by *)
(* a second from one saved text to the next, so the latest text is unique. *)
(***************************************************************************)
UiTextInputs == {<<"v1.0", "Hello">>, <<"v1.1", "Hallo">>}
NoPurpose == [k \in {PurposeKeys[i] : i \in 1..Len(PurposeKeys)} |-> FALSE]

NextUI ==
    \/ \E s \in Sessions : RunView(s)
    \/ \E s \in Sessions, vb \in UiTextInputs, l \in Languages, ti \in Titles,
          now \in {t \in WholeSeconds : t.sec = Len(consent_texts)} :
          RunSubmitText(s, vb[1], l, ti, vb[2], now)
    \/ \E s \in Sessions, n \in Names, e \in {" a@x.de "},
          p \in PurposeInputs \cup {NoPurpose}, ack_info \in BOOLEAN,
          age_ok \in BOOLEAN, now \in FirstInstant :
          RunSubmitConsent(s, n, e, p, ack_info, age_ok, NextId, now)
    \/ \E s \in Sessions, cid \in Ids, now \in FirstInstant : RunRevoke(s, cid, now)

SpecUI == Init /\ [][NextUI]_vars

(***************************************************************************)
(* SpecRace: consents are saved, then every session revokes one id, with   *)
(* its own note and time, the calls overlapping in every way.              *)
(***************************************************************************)
NextRace ==
    \/ /\ consent_texts = <<>>
       /\ \E ti \in Titles, now \in FirstInstant :
             upsert_consent_text("v1.0", "de", ti, "Hello", now)
    \/ /\ \A s \in Sessions : txn[s].state = "idle"
       /\ \E n \in Names, p \in PurposeInputs, ct_row \in RowsOf(consent_texts),
             now \in FirstInstant :
             save_consent("", n, p, ct_row, NextId, now)
    \/ \E s \in Sessions, cid \in Ids, note \in Notes, now \in RevokeTimes :
          RevokeExecute(s, cid, note, now)
    \/ \E s \in Sessions, cid \in Ids, note \in Notes, now \in RevokeTimes :
          RevokeBusy(s, cid, note, now)
    \/ \E s \in Sessions : RevokeCommit(s)

SpecRace == Init /\ [][NextRace]_vars

\* C5: getLatest(lang) returns a row of language lang whose createdAt no other
\* row of that language exceeds, in whatever order the rows were inserted,
\* and returns the absent value exactly when no row has that language.
C5_LatestIsMaxCreatedAt ==
    call.op = "get_latest_consent_text" =>
        LET rows == {r \in RowsOf(consent_texts) : r.language = call.language} IN
        /\ (ret = NoRow) <=> (rows = {})
        /\ rows # {} =>
              /\ ret \in rows
              /\ \A q \in rows : ~TimeLess(fromisoformat(ret.created_at),
                                           fromisoformat(q.created_at))

\* getLatest answered with a row that was inserted before an older-stamped
\* row of the same language
C5_Witness ==
    /\ call.op = "get_latest_consent_text"
    /\ ret # NoRow
    /\ \E q \in RowsOf(consent_texts) :
          /\ q.language = call.language
          /\ q.id > ret.id
          /\ TimeLess(fromisoformat(q.created_at), fromisoformat(ret.created_at))

HashOfBody(body) == sha256_hexdigest(encode_utf8(body))

\* C8: createText adds exactly one row, with an id no row had, with
\* bodyHash = SHA256(body), and returns that hash; rows with the same body have
\* the same hash whatever their version, in distinct rows; no step modifies or
\* removes an existing consent-text row.
C8_CreateTextHashesBody ==
    /\ [](\A i, j \in 1..Len(consent_texts) :
            /\ consent_texts[i].body_hash = HashOfBody(consent_texts[i].body)
            /\ i # j => consent_texts[i].id # consent_texts[j].id
            /\ consent_texts[i].body = consent_texts[j].body
                  => consent_texts[i].body_hash = consent_texts[j].body_hash)
    /\ [][/\ Len(consent_texts') >= Len(consent_texts)
          /\ SubSeq(consent_texts', 1, Len(consent_texts)) = consent_texts
          /\ call'.op = "upsert_consent_text" =>
                /\ Len(consent_texts') = Len(consent_texts) + 1
                /\ LET row == consent_texts'[Len(consent_texts')] IN
                   /\ row.id \notin {consent_texts[i].id : i \in 1..Len(consent_texts)}
                   /\ row.version = call'.version /\ row.body = call'.body
                   /\ row.body_hash = HashOfBody(call'.body)
                   /\ ret' = HashOfBody(call'.body)]_vars

\* the same body was saved again under another version
C8_Witness ==
    /\ call.op = "upsert_consent_text"
    /\ \E i, j \in 1..Len(consent_texts) :
          /\ i < j /\ j = Len(consent_texts)
          /\ consent_texts[i].body = consent_texts[j].body
          /\ consent_texts[i].version # consent_texts[j].version
          /\ consent_texts[i].body_hash = ret

Active(table, consent_id) ==
    \E i \in 1..Len(table) :
        table[i].id = consent_id /\ table[i].revoked_at = NULL

\* C1: revoke(id, note) on an existing ACTIVE record leaves that record with
\* isGranted = false, revokedAt = the (non-null) time of the call and
\* revocationNote = note; its other fields, every other record and the
\* consent texts are unchanged.
C1_RevokeActive ==
    [][(call'.op = "revoke_consent" /\ Active(consents, call'.consent_id)) =>
          /\ call'.at # NULL
          /\ consent_texts' = consent_texts
          /\ Len(consents') = Len(consents)
          /\ \A i \in 1..Len(consents) :
                IF consents[i].id = call'.consent_id
                THEN consents'[i] = [consents[i] EXCEPT !.is_granted = 0,
                                        !.revoked_at = call'.at,
                                        !.revocation_note = call'.note]
                ELSE consents'[i] = consents[i]]_vars

\* a revoke just took effect on one record while another record stayed ACTIVE
C1_Witness ==
    /\ call.op = "revoke_consent"
    /\ \E i, j \in 1..Len(consents) :
          /\ consents[i].id = call.consent_id
          /\ consents[i].revoked_at = call.at
          /\ consents[i].revocation_note = call.note
          /\ consents[i].is_granted = 0
          /\ j # i /\ consents[j].revoked_at = NULL

\* C2: revoke(id) on an already REVOKED record or on an id no record has
\* returns normally and changes nothing: revokedAt and revocationNote of the
\* first revoke stay as they are.
C2_RevokeNoOp ==
    [][(call'.op = "revoke_consent" /\ ~Active(consents, call'.consent_id)) =>
          /\ consents' = consents
          /\ consent_texts' = consent_texts
          /\ ret' = None]_vars

\* a second revoke, with another note and time, met a REVOKED record
C2_Witness ==
    /\ call.op = "revoke_consent"
    /\ \E i \in 1..Len(consents) :
          /\ consents[i].id = call.consent_id
          /\ consents[i].revoked_at # NULL
          /\ consents[i].revoked_at # call.at
          /\ consents[i].revocation_note # call.note

\* C4: in every step, every record stays in the ledger under its id, and a
\* record whose revokedAt is non-null keeps that revokedAt and isGranted = false.
C4_RevocationOneWay ==
    [][/\ Len(consents') >= Len(consents)
       /\ \A i \in 1..Len(consents) :
             /\ consents'[i].id = consents[i].id
             /\ consents[i].revoked_at # NULL =>
                   /\ consents'[i].revoked_at = consents[i].revoked_at
                   /\ consents'[i].is_granted = 0]_vars

\* a consent was saved after another record had been revoked
C4_Witness ==
    /\ call.op = "save_consent"
    /\ Len(consents) >= 2
    /\ consents[1].revoked_at # NULL
    /\ consents[1].is_granted = 0

\* C10: every record has isGranted = true exactly when revokedAt is null, and a
\* null revocationNote when revokedAt is null; a new record starts granted with
\* both revocation fields null; only revoke changes any of the three fields,
\* and it changes isGranted and revokedAt together.
C10_GrantedIffNotRevoked ==
    /\ [](\A i \in 1..Len(consents) :
            /\ consents[i].is_granted \in {0, 1}
            /\ (consents[i].is_granted = 1) <=> (consents[i].revoked_at = NULL)
            /\ consents[i].revoked_at = NULL => consents[i].revocation_note = None)
    /\ [][/\ \A i \in 1..Len(consents') :
                i > Len(consents) =>
                   /\ consents'[i].is_granted = 1
                   /\ consents'[i].revoked_at = NULL
                   /\ consents'[i].revocation_note = None
          /\ \A i \in 1..Len(consents) :
                i <= Len(consents') =>
                   /\ (consents'[i].is_granted # consents[i].is_granted)
                         <=> (consents'[i].revoked_at # consents[i].revoked_at)
                   /\ (\/ consents'[i].is_granted # consents[i].is_granted
                       \/ consents'[i].revoked_at # consents[i].revoked_at
                       \/ consents'[i].revocation_note # consents[i].revocation_note)
                         => call'.op = "revoke_consent"]_vars

\* the ledger holds a REVOKED record with a note and an ACTIVE one
C10_Witness ==
    \E i, j \in 1..Len(consents) :
        /\ consents[i].is_granted = 0 /\ consents[i].revoked_at # NULL
        /\ consents[i].revocation_note # None
        /\ consents[j].is_granted = 1 /\ consents[j].revoked_at = NULL

\* the ids of the rows a list_consents call returned
ReturnedIds == {ret[k].id : k \in 1..Len(ret)}

\* C6: list(emailFilter) with a filter given (a non-empty string: the caller
\* passes an empty input as None and list_consents treats both alike) returns,
\* once each and with their stored columns, exactly the records whose
\* subjectEmail is that very string, so none with a null e-mail or one that
\* differs in case only; with no filter it returns every record, revoked or active.
C6_ListFilter ==
    call.op = "list_consents" =>
        LET f == call.email_filter
            wanted == IF f # None /\ f # ""
                      THEN {r \in RowsOf(consents) : r.subject_email = f}
                      ELSE RowsOf(consents)
        IN  /\ Len(ret) = Cardinality(wanted)
            /\ ReturnedIds = {r.id : r \in wanted}
            /\ \A k \in 1..Len(ret) : \E r \in wanted : ret[k] = ListedColumns(r)

\* a filter selected one record and left out one whose e-mail differs in case only
C6_Witness ==
    /\ call.op = "list_consents"
    /\ call.email_filter = "a@x.de"
    /\ Len(ret) = 1
    /\ \E r \in RowsOf(consents) : r.subject_email = "A@x.de"

\* C7: in the rows list returns, a record with a later createdAt never comes
\* after one with an earlier createdAt, also when both were created within
\* the same second.
C7_NewestFirst ==
    call.op = "list_consents" =>
        \A a, b \in 1..Len(ret) :
            a < b => ~TimeLess(fromisoformat(ret[a].created_at),
                               fromisoformat(ret[b].created_at))

\* C3: every consent record carries the consentTextId, consentTextVersion and
\* consentTextHash of the text its subject was shown when submitting, also
\* when a newer text was saved between display and submission; a submission
\* adds exactly one record, and the three fields never change afterwards.
C3_BoundToDisplayedText ==
    /\ [](\A i \in 1..Len(consents) :
            displayed[consents[i].id] # NoRow =>
               /\ consents[i].consent_text_id = displayed[consents[i].id].id
               /\ consents[i].consent_text_version = displayed[consents[i].id].version
               /\ consents[i].consent_text_hash = displayed[consents[i].id].body_hash)
    /\ [][/\ Len(consents') \in {Len(consents), Len(consents) + 1}
          /\ \A i \in 1..Len(consents) :
                /\ consents'[i].consent_text_id = consents[i].consent_text_id
                /\ consents'[i].consent_text_version = consents[i].consent_text_version
                /\ consents'[i].consent_text_hash = consents[i].consent_text_hash]_vars

\* the sessions whose revoke of consent_id has run its UPDATE
Callers(consent_id) ==
    {s \in Sessions : txn[s].state \in {"open", "done"}
                      /\ txn[s].consent_id = consent_id}
\* those whose UPDATE changed the record
Winners(consent_id) == {s \in Callers(consent_id) : txn[s].rowcount = 1}

\* C9: when sessions revoke the same ACTIVE record at the same time, exactly
\* one of the calls changes it; after that call's commit the record carries
\* that call's revokedAt and revocationNote, whatever the other calls
\* brought, and before it the record is still ACTIVE.
C9_RevokeAtomic ==
    \A i \in 1..Len(consents) :
        LET id == consents[i].id IN
        Callers(id) # {} =>
            /\ Cardinality(Winners(id)) = 1
            /\ \A s \in Winners(id) :
                  IF txn[s].state = "done"
                  THEN /\ consents[i].revoked_at = txn[s].at
                       /\ consents[i].revocation_note = txn[s].note
                       /\ consents[i].is_granted = 0
                  ELSE consents[i].revoked_at = NULL

\* two sessions revoked the same record with different notes and times: one
\* changed it, the other changed nothing
C9_Witness ==
    \E s, t \in Sessions, i \in 1..Len(consents) :
        /\ s # t
        /\ txn[s].state = "done" /\ txn[t].state = "done"
        /\ txn[s].consent_id = consents[i].id /\ txn[t].consent_id = consents[i].id
        /\ txn[s].rowcount = 1 /\ txn[t].rowcount = 0
        /\ txn[s].note # txn[t].note /\ txn[s].at # txn[t].at
        /\ consents[i].revocation_note = txn[s].note

====
